---- MODULE Spec2Model ----
(***************************************************************************)
(* LabSync: the per-device worker (LabSyncWorker), its handler              *)
(* (WorkerHandler), the coordinator's shutdown bookkeeping (LabSync) and    *)
(* the parts of the device drivers and profiles they dispatch to.           *)
(*                                                                          *)
(* Threads.  Every WorkerHandler owns one QThread running the Qt event loop *)
(* of its LabSyncWorker.  requestWorker -> execute_request and the poll     *)
(* timer's timeout -> _handle_poll are events of that loop (inbox, the      *)
(* timer); resultReady -> handle_result and QThread.finished ->             *)
(* _on_thread_finished are events of the main thread's loop (mainQ).  A     *)
(* slot runs to completion before its loop dispatches the next event; a     *)
(* blocking driver call is the one place where a slot is observed half-way  *)
(* (pc = "call").                                                           *)
(***************************************************************************)
EXTENDS Integers, Sequences, FiniteSets, TLC

\* ------------------------------------------------------------------ bounds
\* send_request calls made by the coordinator in one run
MaxSends == 3
\* timeouts of the poll timers in one run
MaxTicks == 1
\* requests waiting in one worker's event queue when send_request is called
MaxInbox == 2
\* set_value calls made on one cache key
MaxCalls == 3
\* setter calls made on the frequency generator
MaxSetterCalls == 3
\* bytes in a frame given to the checksum function
MaxFrameLen == 4
\* hex digits in a string given to the byte-order inversion
MaxHexLen == 4

\* ------------------------------------------------------------------ values
\* A request value: None, a number, a (value, channel) tuple, a [port, baudrate] list.
NoneValue == [k |-> "none", v |-> 0, ch |-> 0]
Num(n) == [k |-> "num", v |-> n, ch |-> 0]
Tup(n, c) == [k |-> "tuple", v |-> n, ch |-> c]
PortValue == [k |-> "port", v |-> 0, ch |-> 0]
TrueValue == [k |-> "bool", v |-> 1, ch |-> 0]
FalseValue == [k |-> "bool", v |-> 0, ch |-> 0]

\* parameter=None of a DeviceRequest, and the marker of a silent CONNECT
NoParam == "None"
SILENT == "SILENT"

\* ------------------------------------------------------------------ devices
Devices == {"EcoVario", "Laser1", "TGA1244"}
\* dict order of the workers map built by _setup_devices
DeviceOrder == <<"EcoVario", "Laser1", "TGA1244">>
\* the sets of devices one run registers
WorkerSets == {{"EcoVario"}, {"Laser1"}, {"TGA1244"}, {"EcoVario", "Laser1"}}

DriverClass(d) ==
    CASE d = "EcoVario" -> "EcoConnect"
      [] d = "Laser1" -> "OmicronLaser"
      [] d = "TGA1244" -> "FrequencyGenerator"

\* Parameter(key, method, min_value, max_value, unit, data_type)
Parameter(m, lo, hi, dt) ==
    [method |-> m, min_value |-> lo, max_value |-> hi, data_type |-> dt]

\* The profiles of _setup_profiles.  The frequency generator's offset entry has
\* six elements, so that its unit slot holds 10.0 and its data_type slot "V".
ecovario_keys ==
    ("target_pos" :> Parameter("set_position", Num(0), Num(2530), "float")) @@
    ("current_pos" :> Parameter("get_current_position", Num(0), Num(2530), "float")) @@
    ("START" :> Parameter("start", NoneValue, NoneValue, "None")) @@
    ("current_error_code" :> Parameter("get_current_error", NoneValue, NoneValue, "None"))

laser_keys ==
    ("temp_power" :> Parameter("set_temp_power", Num(0), Num(100), "float")) @@
    ("INFO" :> Parameter("get_device_information", NoneValue, NoneValue, "None"))

freq_gen_keys ==
    ("amplitude" :> Parameter("set_amplitude", Num(0), Num(10), "float")) @@
    ("offset" :> Parameter("set_offset", Num(0), Num(0), "V"))

Profile(d) ==
    CASE d = "EcoVario" -> ecovario_keys
      [] d = "Laser1" -> laser_keys
      [] d = "TGA1244" -> freq_gen_keys

\* faulty variant: a validation that also rejects the two bounds themselves
validateStrict(param, value) ==
    IF /\ param.data_type \in {"int", "float"}
       /\ (param.min_value.k = "none" \/ value.k # "none")
    THEN IF /\ value.k \in {"num", "bool"}
            /\ param.min_value.k = "num"
            /\ param.max_value.k = "num"
         THEN IF value.v <= param.min_value.v \/ value.v >= param.max_value.v
              THEN "false"
              ELSE "true"
         ELSE "raise"
    ELSE "true"

\* Parameter.validate: "true", "false", or "raise" when the comparison itself
\* raises TypeError (a tuple, a list or None against a number).
validate(param, value) ==
    IF /\ param.data_type \in {"int", "float"}
       /\ (param.min_value.k = "none" \/ value.k # "none")
    THEN IF /\ value.k \in {"num", "bool"}
            /\ param.min_value.k = "num"
            /\ param.max_value.k = "num"
         THEN IF value.v < param.min_value.v \/ value.v > param.max_value.v
              THEN "false"
              ELSE "true"
         ELSE "raise"
    ELSE "true"

\* ------------------------------------------------------------------ drivers
\* Positional parameters (besides self) of a driver method; -1: no such attribute.
MethodArity(class, m) ==
    CASE class = "EcoConnect" /\ m = "set_position" -> 1
      [] class = "EcoConnect" /\ m \in {"get_current_position", "get_current_error", "start"} -> 0
      [] class = "OmicronLaser" /\ m = "set_temp_power" -> 1
      [] class = "FrequencyGenerator" /\ m \in {"set_amplitude", "set_offset"} -> 2
      [] OTHER -> -1

\* The exception class open_port raises when the transport cannot be opened.
OpenPortError(class) ==
    CASE class = "EcoConnect" -> "DeviceConnectionError"
      [] class = "FrequencyGenerator" -> "DeviceConnectionError"
      [] class = "OmicronLaser" -> "ConnectionError"

\* How a driver method can end, given the driver's status when it is called.
\* The drivers are built with simulate = False.
\* A method that finds the driver not connected does no I/O; the laser's setters
\* then read "" as the reply and raise ParameterNotSetError.
\* The laser's open_port reads the maximum power once it has set CONNECTED; a reply
\* that is no number ends it with a ValueError ("raise_reply").
DriverOutcomes(class, m, st) ==
    CASE m = "open_port" /\ class = "OmicronLaser" -> {"ok", "raise", "raise_reply"}
      [] m = "open_port" /\ class # "OmicronLaser" -> {"ok", "raise"}
      [] m # "open_port" /\ st = "CONNECTED" -> {"ok", "raise"}
      [] m # "open_port" /\ st # "CONNECTED" /\ class = "OmicronLaser" /\ m # "close_port" -> {"raise"}
      [] OTHER -> {"ok"}

\* The driver's status after the method has ended.
StatusAfter(class, m, st, outcome) ==
    CASE m = "open_port" /\ outcome = "ok" -> "CONNECTED"
      [] m = "open_port" /\ outcome = "raise" -> "DISCONNECTED"
      [] m = "open_port" /\ outcome = "raise_reply" -> "CONNECTED"
      [] m = "close_port" /\ class = "EcoConnect" /\ st = "CONNECTED" /\ outcome = "ok" -> "DISCONNECTING"
      [] OTHER -> st

\* What a getter returns: a reading when connected, None otherwise.
GetterValue(class, m, st) ==
    IF st = "CONNECTED" THEN Num(0) ELSE NoneValue

\* ------------------------------------------------------------------ requests
DeviceRequest(d, t, p, v) ==
    [device_id |-> d, cmd_type |-> t, parameter |-> p, value |-> v, ticket |-> 0]

NoRequest == DeviceRequest("None", "None", NoParam, NoneValue)

\* DeviceRequest.id: "{cmd_type}_{device_id}_{parameter}"; the value is not part of it.
RequestId(cmd) == <<cmd.cmd_type, cmd.device_id, cmd.parameter>>

\* request_id.startswith(RequestType.QUIT.value)
StartsWithQuit(id) == id[1] = "QUIT"

RequestResult(d, id, v, err, et) ==
    [device_id |-> d, request_id |-> id, value |-> v, error |-> err, error_type |-> et]

\* the parameters the callers poll
FirstPoll(d) ==
    CASE d = "EcoVario" -> "current_pos"
      [] d = "Laser1" -> "INFO"
      [] d = "TGA1244" -> "amplitude"

SecondPoll(d) ==
    CASE d = "EcoVario" -> "current_error_code"
      [] d = "Laser1" -> "temp_power"
      [] d = "TGA1244" -> "offset"

\* The requests a caller hands to send_request for device d.
Requests(d) ==
    {DeviceRequest(d, t, NoParam, NoneValue) : t \in {"DISCONNECT", "QUIT", "STOP_POLL"}}
    \cup {DeviceRequest(d, "CONNECT", NoParam, PortValue)}
    \cup {DeviceRequest(d, "START_POLL", FirstPoll(d), Num(2000)),
          DeviceRequest(d, "START_POLL", SecondPoll(d), NoneValue),
          DeviceRequest(d, "STOP_POLL", SecondPoll(d), NoneValue)}
    \cup (CASE d = "EcoVario" ->
                 {DeviceRequest(d, "SET", "target_pos", Num(n)) : n \in {2530, 2531}}
                 \cup {DeviceRequest(d, "POLL", "current_pos", NoneValue),
                       DeviceRequest(d, "SET", "bogus", Num(1))}
            [] d = "Laser1" ->
                 {DeviceRequest(d, "SET", "temp_power", Num(n)) : n \in {-1, 0, 100, 150}}
                 \cup {DeviceRequest(d, "POLL", "INFO", NoneValue)}
            [] d = "TGA1244" ->
                 {DeviceRequest(d, "CONNECT", SILENT, PortValue),
                  DeviceRequest(d, "SET", "amplitude", Tup(5, 1)),
                  DeviceRequest(d, "SET", "offset", Tup(20, 1))})

\* With two devices registered the callers keep to the life-cycle requests.
CoreRequests(d) ==
    {DeviceRequest(d, "CONNECT", NoParam, PortValue)}
    \cup {DeviceRequest(d, "QUIT", NoParam, NoneValue) : x \in {"EcoVario"} \cap {d}}

VARIABLES
    workers,          \* MapWorkers._workers: the registered device ids
    inbox,            \* per worker: queued requestWorker -> execute_request events
    running,          \* per handler: _thread.isRunning()
    poll_contexts,    \* per worker: _poll_contexts, a list of (parameter, interval)
    timer_active,     \* per worker: _timer.isActive()
    timer_interval,   \* per worker: _timer.interval()
    status,           \* per driver: status
    pc,               \* per worker: "idle", or "call" inside a driver method
    cur,              \* per worker: the request being (or last) executed
    method,           \* per worker: the driver method of the call in progress
    poll_batch,       \* per worker: contexts _handle_poll has still to execute
    wtrace,           \* per worker: what the execution of cur has done so far
    in_call,          \* per driver: method invocations in progress
    mainQ,            \* main thread: queued handle_result / _on_thread_finished events
    main_wait,        \* main thread: the device whose thread it waits for in _thread.wait()
    mtrace,           \* main thread: what the last send_request call did
    pending_workers,  \* LabSync._pending_workers
    close_requested,  \* MainWindow has emitted requestClose (and disabled itself)
    shutdown_finished,\* emissions of LabSync.shutdownFinished
    handler_finished, \* per handler: emissions of handlerFinished
    shutdown_at,      \* per handler: "no", or whether the thread ran when start_shutdown was called
    shutdown_reqs,    \* per handler: the cmd_types start_shutdown emitted on requestWorker
    fin_after,        \* per handler: emissions of handlerFinished since start_shutdown
    sends,            \* send_request calls so far
    ticks,            \* poll timer timeouts so far
    executed,         \* per worker: tickets of the forwarded requests it has executed, in order
    link              \* per worker: how the last CONNECT / DISCONNECT it has executed ended

\* The parts of the program that are exercised on their own: the cache.
VARIABLES
    cache,            \* InstrumentCache: the value stored under one (device, parameter) key
    cache_calls,      \* the set_value calls made on that key: stored value, new value, notified
    current_channel,  \* FrequencyGenerator.current_channel
    tga_channel,      \* the channel the generator itself has selected
    tga_written,      \* what the setters have written to the generator, oldest first
    message,          \* the bytes given to EcoConnect._calculate_checksum
    checksum,         \* what it returned, -1 before the call
    hex_string,       \* the hex digits given to EcoConnect._invert_hex
    hex_result,       \* what _invert_hex returned last
    hex_count,        \* how often _invert_hex has been applied to get hex_result
    preset_data,      \* the cache map handed to LabFileParser.save
    preset_file,      \* the lines of the written .lab file
    preset_loaded,    \* the map LabFileParser.load has returned
    preset_stage,     \* "cached", "saved" or "loaded"
    sdo_call,         \* the call of EcoConnect._write_sdo or _read_sdo: kind, id, object, value
    sdo_frame,        \* the bytes that call has written, <<>> before it
    reset_state,      \* OmicronLaser.reset_controller: "idle", "reading", "returned", "raised"
    reset_written,    \* what reset_controller has written to the laser
    reset_replies,    \* the replies reset_controller has read, oldest first
    laser_status,     \* OmicronLaser.status
    laser_sent,       \* the commands the laser driver has sent, oldest first
    stage_status,     \* EcoConnect.status
    stage_handle,     \* EcoConnect.EcoVario: "None", "open" or "closed"
    stage_call,       \* the method of EcoConnect called last and its argument
    stage_written,    \* the frames that call has written to the transport
    stage_outcome     \* "none", "returned" or the exception the call raised

cacheVars == <<cache, cache_calls>>
tgaVars == <<current_channel, tga_channel, tga_written>>
ecoVars == <<message, checksum, hex_string, hex_result, hex_count>>
presetVars == <<preset_data, preset_file, preset_loaded, preset_stage>>
sdoVars == <<sdo_call, sdo_frame>>
resetVars == <<reset_state, reset_written, reset_replies>>
laserVars == <<laser_status, laser_sent>>
stageVars == <<stage_status, stage_handle, stage_call, stage_written, stage_outcome>>
driverVars == <<sdoVars, resetVars, laserVars, stageVars>>
sideVars == <<cacheVars, tgaVars, ecoVars, presetVars, driverVars>>

mainVars == <<workers, inbox, running, poll_contexts, timer_active, timer_interval, status,
              pc, cur, method, poll_batch, wtrace, in_call, mainQ, main_wait, mtrace,
              pending_workers, close_requested, shutdown_finished, handler_finished,
              shutdown_at, shutdown_reqs, fin_after, sends, ticks, executed, link>>

vars == <<workers, inbox, running, poll_contexts, timer_active, timer_interval, status,
          pc, cur, method, poll_batch, wtrace, in_call, mainQ, main_wait, mtrace,
          pending_workers, close_requested, shutdown_finished, handler_finished,
          shutdown_at, shutdown_reqs, fin_after, sends, ticks, executed, link, sideVars>>

workerVars == <<poll_contexts, timer_active, timer_interval, status, pc, cur, method,
                poll_batch, wtrace, in_call, link>>
coordVars == <<pending_workers, close_requested, shutdown_finished, handler_finished,
               shutdown_at, shutdown_reqs, fin_after>>

\* a key no set_value has been called on yet
Absent == [k |-> "absent", v |-> 0, ch |-> 0]

\* a cache map without keys
EmptyMap == [key \in {} |-> NoneValue]

CacheIdle == cache = Absent /\ cache_calls = <<>>
TgaIdle == current_channel = 1 /\ tga_channel = 1 /\ tga_written = <<>>
ChecksumIdle == message = <<>> /\ checksum = -1
HexIdle == hex_string = <<>> /\ hex_result = <<>> /\ hex_count = 0
PresetIdle ==
    /\ preset_data = EmptyMap /\ preset_file = <<>>
    /\ preset_loaded = EmptyMap /\ preset_stage = "cached"

NoCall == [kind |-> "none", id |-> 0, object |-> 0, value |-> 0]
SdoIdle == sdo_call = NoCall /\ sdo_frame = <<>>
ResetIdle == reset_state = "idle" /\ reset_written = <<>> /\ reset_replies = <<>>
LaserIdle == laser_status = "DISCONNECTED" /\ laser_sent = <<>>
NoStageCall == [method |-> "none", value |-> 0]

StageIdle ==
    /\ stage_status = "DISCONNECTED" /\ stage_handle = "None"
    /\ stage_call = NoStageCall
    /\ stage_written = <<>> /\ stage_outcome = "none"
DriverIdle == SdoIdle /\ ResetIdle /\ LaserIdle /\ StageIdle

\* the separately exercised parts before anything has been done with them
SideIdle == CacheIdle /\ TgaIdle /\ ChecksumIdle /\ HexIdle /\ PresetIdle /\ DriverIdle

MainInit ==
    /\ workers \in WorkerSets
    /\ inbox = [d \in Devices |-> <<>>]
    /\ running = [d \in Devices |-> d \in workers]
    /\ poll_contexts = [d \in Devices |-> <<>>]
    /\ timer_active = [d \in Devices |-> FALSE]
    /\ timer_interval = [d \in Devices |-> 0]
    /\ status = [d \in Devices |-> "DISCONNECTED"]
    /\ link = [d \in Devices |-> "none"]
    /\ pc = [d \in Devices |-> "idle"]
    /\ cur = [d \in Devices |-> NoRequest]
    /\ method = [d \in Devices |-> "none"]
    /\ poll_batch = [d \in Devices |-> <<>>]
    /\ wtrace = [d \in Devices |-> <<>>]
    /\ in_call = [d \in Devices |-> 0]
    /\ mainQ = <<>>
    /\ main_wait = "none"
    /\ mtrace = <<>>
    /\ pending_workers = {}
    /\ close_requested = FALSE
    /\ shutdown_finished = 0
    /\ handler_finished = [d \in Devices |-> 0]
    /\ shutdown_at = [d \in Devices |-> "no"]
    /\ shutdown_reqs = [d \in Devices |-> <<>>]
    /\ fin_after = [d \in Devices |-> 0]
    /\ sends = 0
    /\ ticks = 0
    /\ executed = [d \in Devices |-> <<>>]

Init == MainInit /\ SideIdle

\* ------------------------------------------------------------------ LabSyncWorker
\* What a slot does, in order: signals emitted, driver methods entered, timer calls.
EvEmit(r) == [e |-> "resultReady", r |-> r]
EvCall(m) == [e |-> "call", m |-> m]
EvTimerStart(iv) == [e |-> "timer_start", iv |-> iv]
EvTimerStop == [e |-> "timer_stop"]
EvEscaped(cls) == [e |-> "escaped", m |-> cls]

\* the poll DeviceRequest a START_POLL stores in its context
PollRequest(d, p) == DeviceRequest(d, "POLL", p, NoneValue)

\* min(interval for _, interval in self._poll_contexts)
MinInterval(ctxs) ==
    LET S == {ctxs[i].interval : i \in 1..Len(ctxs)}
    IN CHOOSE m \in S : \A x \in S : m <= x

\* faulty variant: no context is ever found for a parameter
HasContextNever(ctxs, p) == FALSE

\* any(ctx.parameter == cmd.parameter for ctx, _ in self._poll_contexts)
HasContext(ctxs, p) == \E i \in 1..Len(ctxs) : ctxs[i].parameter = p

\* The state a request leaves behind up to its driver call (call = "none": the
\* request is complete): contexts, timer, trace of what was done, results emitted.
Step(ctxs, ton, tiv, call, trace) ==
    [ctx |-> ctxs, ton |-> ton, tiv |-> tiv, call |-> call, trace |-> trace]

\* faulty variant: a START_POLL that overwrites the interval of an existing context
StartPollOverwrites(cmd, ctxs, ton, tiv) ==
    LET interval == IF cmd.value.k = "num" /\ cmd.value.v # 0 THEN cmd.value.v ELSE 500
        added == IF HasContext(ctxs, cmd.parameter)
                 THEN [i \in 1..Len(ctxs) |->
                         IF ctxs[i].parameter = cmd.parameter
                         THEN [ctxs[i] EXCEPT !.interval = interval] ELSE ctxs[i]]
                 ELSE Append(ctxs, [parameter |-> cmd.parameter, interval |-> interval])
    IN Step(added, TRUE, MinInterval(added), "none", <<EvTimerStart(MinInterval(added))>>)

\* execute_request, START_POLL branch
StartPoll(cmd, ctxs, ton, tiv) ==
    LET interval == IF cmd.value.k = "num" /\ cmd.value.v # 0 THEN cmd.value.v ELSE 500
        added == IF HasContext(ctxs, cmd.parameter)
                 THEN ctxs
                 ELSE Append(ctxs, [parameter |-> cmd.parameter, interval |-> interval])
    IN Step(added, TRUE, MinInterval(added), "none", <<EvTimerStart(MinInterval(added))>>)

\* faulty variant: a STOP_POLL that leaves the timer running at its old interval
StopPollKeepsInterval(cmd, ctxs, ton, tiv) ==
    LET Keep(c) == c.parameter # cmd.parameter
        left == SelectSeq(ctxs, Keep)
    IN IF cmd.parameter = NoParam \/ left = <<>>
       THEN Step(<<>>, FALSE, tiv, "none", <<EvTimerStop>>)
       ELSE Step(left, ton, tiv, "none", <<>>)

\* faulty variant: a STOP_POLL that re-arms the timer without removing the context
StopPollKeepsContext(cmd, ctxs, ton, tiv) ==
    IF cmd.parameter = NoParam \/ ctxs = <<>>
    THEN Step(<<>>, FALSE, tiv, "none", <<EvTimerStop>>)
    ELSE Step(ctxs, TRUE, MinInterval(ctxs), "none", <<EvTimerStart(MinInterval(ctxs))>>)

\* execute_request, STOP_POLL branch
StopPoll(cmd, ctxs, ton, tiv) ==
    LET Keep(c) == c.parameter # cmd.parameter
        left == SelectSeq(ctxs, Keep)
    IN IF cmd.parameter = NoParam \/ left = <<>>
       THEN Step(<<>>, FALSE, tiv, "none", <<EvTimerStop>>)
       ELSE Step(left, TRUE, MinInterval(left), "none", <<EvTimerStart(MinInterval(left))>>)

\* faulty variant: the port is closed before the poll contexts are told
DisconnectCloseFirst(d, ctxs, ton, tiv) ==
    LET sentinels == [i \in 1..Len(ctxs) |->
                        EvEmit(RequestResult(d, RequestId(PollRequest(d, ctxs[i].parameter)),
                                             NoneValue, FALSE, "None"))]
    IN Step(ctxs, FALSE, tiv, "close_port",
            (IF ton THEN <<EvTimerStop>> ELSE <<>>) \o <<EvCall("close_port")>> \o sentinels)

\* _disconnect_device up to the call of close_port
DisconnectBegin(d, ctxs, ton, tiv) ==
    LET sentinels == [i \in 1..Len(ctxs) |->
                        EvEmit(RequestResult(d, RequestId(PollRequest(d, ctxs[i].parameter)),
                                             NoneValue, FALSE, "None"))]
    IN Step(ctxs, FALSE, tiv, "close_port",
            sentinels \o (IF ton THEN <<EvTimerStop>> ELSE <<>>) \o <<EvCall("close_port")>>)

\* the arguments execute_request passes to the driver method
CallArgs(cmd) ==
    IF cmd.cmd_type = "POLL" THEN 0
    ELSE CASE cmd.value.k = "tuple" -> 2
           [] cmd.value.k = "none" -> 0
           [] OTHER -> 1

\* execute_request, SET / POLL branch up to the driver call
Dispatch(d, cmd, ctxs, ton, tiv) ==
    LET id == RequestId(cmd)
        Fail(et) == Step(ctxs, ton, tiv, "none",
                         <<EvEmit(RequestResult(d, id, NoneValue, TRUE, et))>>)
    IN IF cmd.parameter \notin DOMAIN Profile(d)
       THEN Fail("None")
       ELSE LET param == Profile(d)[cmd.parameter]
            IN IF cmd.cmd_type = "SET" /\ validate(param, cmd.value) # "true"
               THEN Fail("TASK")
               ELSE IF MethodArity(DriverClass(d), param.method) # CallArgs(cmd)
                    THEN Fail("TASK")
                    ELSE Step(ctxs, ton, tiv, param.method, <<EvCall(param.method)>>)

\* execute_request from its first line to its driver call, or to its end
Begin(d, cmd, ctxs, ton, tiv) ==
    CASE cmd.cmd_type = "CONNECT" -> Step(ctxs, ton, tiv, "open_port", <<EvCall("open_port")>>)
      [] cmd.cmd_type \in {"DISCONNECT", "QUIT"} -> DisconnectBegin(d, ctxs, ton, tiv)
      [] cmd.cmd_type = "START_POLL" -> StartPoll(cmd, ctxs, ton, tiv)
      [] cmd.cmd_type = "STOP_POLL" -> StopPoll(cmd, ctxs, ton, tiv)
      [] OTHER -> Dispatch(d, cmd, ctxs, ton, tiv)

\* faulty variant: a successful CONNECT that leaves the poll timer as it is
ConnectEndNoRestart(d, cmd, outcome, ctxs, ton, tiv) ==
    Step(ctxs, ton, tiv, "none",
         IF outcome = "ok"
         THEN <<EvEmit(RequestResult(d, RequestId(cmd), TrueValue, FALSE, "None"))>>
         ELSE <<EvEmit(RequestResult(d, RequestId(cmd), NoneValue, TRUE, "CONNECTION"))>>)

\* _connect_device after open_port has returned or raised
ConnectEnd(d, cmd, outcome, ctxs, ton, tiv) ==
    LET id == RequestId(cmd)
    IN IF outcome = "ok"
       THEN IF ctxs # <<>>
            THEN Step(ctxs, TRUE, MinInterval(ctxs), "none",
                      <<EvEmit(RequestResult(d, id, TrueValue, FALSE, "None")),
                        EvTimerStart(MinInterval(ctxs))>>)
            ELSE Step(ctxs, ton, tiv, "none",
                      <<EvEmit(RequestResult(d, id, TrueValue, FALSE, "None"))>>)
       ELSE IF OpenPortError(DriverClass(d)) = "DeviceConnectionError"
            THEN Step(ctxs, ton, tiv, "none",
                      <<EvEmit(RequestResult(d, id, NoneValue, TRUE,
                           IF cmd.parameter = SILENT THEN "INIT_CONNECTION" ELSE "CONNECTION"))>>)
            ELSE Step(ctxs, ton, tiv, "none",
                      <<EvEscaped(IF outcome = "raise_reply" THEN "ValueError"
                                  ELSE OpenPortError(DriverClass(d)))>>)

\* faulty variant: a failing close_port is swallowed without a result
DisconnectEndSilent(d, cmd, outcome, ctxs, ton, tiv) ==
    Step(IF cmd.cmd_type = "QUIT" THEN <<>> ELSE ctxs, ton, tiv, "none",
         IF outcome = "ok"
         THEN <<EvEmit(RequestResult(d, RequestId(cmd), FalseValue, FALSE, "None"))>>
         ELSE <<>>)

\* _disconnect_device after close_port, and the QUIT branch's clear()
DisconnectEnd(d, cmd, outcome, ctxs, ton, tiv) ==
    Step(IF cmd.cmd_type = "QUIT" THEN <<>> ELSE ctxs, ton, tiv, "none",
         <<EvEmit(IF outcome = "ok"
                  THEN RequestResult(d, RequestId(cmd), FalseValue, FALSE, "None")
                  ELSE RequestResult(d, RequestId(cmd), NoneValue, TRUE, "CONNECTION"))>>)

\* the SET / POLL branch after the driver method has returned or raised
DispatchEnd(d, cmd, m, st, outcome, ctxs, ton, tiv) ==
    Step(ctxs, ton, tiv, "none",
         <<EvEmit(IF outcome = "ok"
                  THEN RequestResult(d, RequestId(cmd),
                                     IF cmd.cmd_type = "SET" THEN cmd.value
                                     ELSE GetterValue(DriverClass(d), m, st),
                                     FALSE, "None")
                  ELSE RequestResult(d, RequestId(cmd), NoneValue, TRUE, "TASK"))>>)

\* execute_request from the end of its driver call to its end
End(d, cmd, m, st, outcome, ctxs, ton, tiv) ==
    CASE cmd.cmd_type = "CONNECT" -> ConnectEnd(d, cmd, outcome, ctxs, ton, tiv)
      [] cmd.cmd_type \in {"DISCONNECT", "QUIT"} -> DisconnectEnd(d, cmd, outcome, ctxs, ton, tiv)
      [] OTHER -> DispatchEnd(d, cmd, m, st, outcome, ctxs, ton, tiv)

\* the results among a slot's events, as events of the main thread's queue
Results(d, trace) ==
    LET IsEmit(ev) == ev.e = "resultReady"
        emits == SelectSeq(trace, IsEmit)
    IN [i \in 1..Len(emits) |-> [k |-> "result", d |-> d, r |-> emits[i].r]]

\* faulty variant: slots of one worker that may run inside one another
AlwaysDispatch(d) == TRUE

\* The worker's event loop dispatches the next event only when the slot before
\* it has returned: no slot is entered while another one is inside a driver call
\* or while _handle_poll is still looping over its contexts.
CanDispatch(d) == pc[d] = "idle" /\ poll_batch[d] = <<>>

\* faulty variant: a queue that delivers its newest event first
NewestEvent(q) == Len(q)

\* the queued connection delivers the oldest event of the thread's queue first
NextEvent(q) == 1

RemoveAt(q, i) == SubSeq(q, 1, i - 1) \o SubSeq(q, i + 1, Len(q))

\* the worker starts executing cmd
Execute(d, cmd) ==
    LET s == Begin(d, cmd, poll_contexts[d], timer_active[d], timer_interval[d])
    IN /\ cur' = [cur EXCEPT ![d] = cmd]
       /\ poll_contexts' = [poll_contexts EXCEPT ![d] = s.ctx]
       /\ timer_active' = [timer_active EXCEPT ![d] = s.ton]
       /\ timer_interval' = [timer_interval EXCEPT ![d] = s.tiv]
       /\ method' = [method EXCEPT ![d] = s.call]
       /\ pc' = [pc EXCEPT ![d] = IF s.call = "none" THEN "idle" ELSE "call"]
       /\ in_call' = [in_call EXCEPT ![d] = IF s.call = "none" THEN @ ELSE @ + 1]
       /\ wtrace' = [wtrace EXCEPT ![d] = s.trace]
       /\ mainQ' = mainQ \o Results(d, s.trace)
       /\ executed' = IF cmd.ticket > 0 THEN [executed EXCEPT ![d] = Append(@, cmd.ticket)] ELSE executed
       /\ UNCHANGED <<status, link, workers, sideVars, running, main_wait, mtrace, coordVars, sends>>

\* History of the connection requests of one worker: "up" after a CONNECT
\* whose open_port has returned, "failed" after one whose open_port has
\* raised, "down" after a DISCONNECT, "quit" after a QUIT; any other request
\* leaves it as it is.
LinkAfter(cmd_type, outcome, before) ==
    CASE cmd_type = "CONNECT" -> IF outcome = "ok" THEN "up" ELSE "failed"
      [] cmd_type = "DISCONNECT" -> "down"
      [] cmd_type = "QUIT" -> "quit"
      [] OTHER -> before

\* requestWorker -> execute_request: the next queued request is executed
WorkerTake(d) ==
    /\ d \in workers /\ running[d] /\ CanDispatch(d)
    /\ inbox[d] # <<>>
    /\ inbox' = [inbox EXCEPT ![d] = RemoveAt(@, NextEvent(@))]
    /\ Execute(d, inbox[d][NextEvent(inbox[d])])
    /\ UNCHANGED <<poll_batch, ticks>>

\* _timer.timeout -> _handle_poll: its loop runs over list(self._poll_contexts)
TimerTick(d) ==
    /\ d \in workers /\ running[d] /\ CanDispatch(d)
    /\ timer_active[d] /\ ticks < MaxTicks
    /\ poll_contexts[d] # <<>>
    /\ ticks' = ticks + 1
    /\ poll_batch' = [poll_batch EXCEPT ![d] = Tail(poll_contexts[d])]
    /\ Execute(d, PollRequest(d, Head(poll_contexts[d]).parameter))
    /\ UNCHANGED inbox

\* _handle_poll: the loop's next execute_request(ctx)
PollNext(d) ==
    /\ d \in workers /\ running[d] /\ pc[d] = "idle"
    /\ poll_batch[d] # <<>>
    /\ poll_batch' = [poll_batch EXCEPT ![d] = Tail(@)]
    /\ Execute(d, PollRequest(d, Head(poll_batch[d]).parameter))
    /\ UNCHANGED <<inbox, ticks>>

\* the driver method the worker is in returns or raises; the slot runs to its end
DriverReturn(d) ==
    /\ d \in workers /\ pc[d] = "call"
    /\ \E outcome \in DriverOutcomes(DriverClass(d), method[d], status[d]) :
         LET s == End(d, cur[d], method[d], status[d], outcome,
                      poll_contexts[d], timer_active[d], timer_interval[d])
         IN /\ status' = [status EXCEPT ![d] =
                             StatusAfter(DriverClass(d), method[d], @, outcome)]
            /\ poll_contexts' = [poll_contexts EXCEPT ![d] = s.ctx]
            /\ timer_active' = [timer_active EXCEPT ![d] = s.ton]
            /\ timer_interval' = [timer_interval EXCEPT ![d] = s.tiv]
            /\ wtrace' = [wtrace EXCEPT ![d] = @ \o <<[e |-> "return", m |-> outcome]>> \o s.trace]
            /\ mainQ' = mainQ \o Results(d, s.trace)
            /\ link' = [link EXCEPT ![d] = LinkAfter(cur[d].cmd_type, outcome, @)]
    /\ pc' = [pc EXCEPT ![d] = "idle"]
    /\ method' = [method EXCEPT ![d] = "none"]
    /\ in_call' = [in_call EXCEPT ![d] = @ - 1]
    /\ UNCHANGED <<cur, poll_batch, inbox, executed, ticks, workers, sideVars, running, main_wait,
                   mtrace, coordVars, sends>>

\* the thread's event loop leaves exec() after _thread.quit(): the thread finishes,
\* QThread.finished is queued for the handler and _thread.wait() returns
ThreadFinish(d) ==
    /\ d \in workers /\ running[d] /\ main_wait = d /\ CanDispatch(d)
    /\ running' = [running EXCEPT ![d] = FALSE]
    /\ mainQ' = Append(mainQ, [k |-> "finished", d |-> d])
    /\ main_wait' = "none"
    /\ UNCHANGED <<workers, sideVars, inbox, workerVars, mtrace, coordVars, sends, ticks, executed>>


\* ------------------------------------------------------------------ WorkerHandler
\* finalize_exit closes the window once shutdownFinished has been emitted
Alive == shutdown_finished = 0

\* requests with a device_id that is not the handler's own
Mismatched(h) ==
    {DeviceRequest(d, "QUIT", NoParam, NoneValue) : d \in {"EcoVario", "Laser1"} \ {h}}

\* what the callers of one run hand to the handler of device h
Alphabet(h) ==
    IF Cardinality(workers) = 1 THEN Requests(h) \cup Mismatched(h) ELSE CoreRequests(h)

\* faulty variant: send_request without the device_id comparison
RouteUnchecked(h, cmd, isRunning) ==
    IF ~isRunning THEN "drop" ELSE "forward"

\* send_request's decision: "drop" when the thread is not running, "reject" when
\* the request names another device, "forward" otherwise
Route(h, cmd, isRunning) ==
    IF ~isRunning THEN "drop"
    ELSE IF cmd.device_id # h THEN "reject"
    ELSE "forward"

\* WorkerHandler.send_request(cmd) on the handler of device h
SendRequest(h, cmd) ==
    /\ h \in workers /\ Alive /\ main_wait = "none"
    /\ sends < MaxSends /\ Len(inbox[h]) < MaxInbox
    /\ sends' = sends + 1
    /\ LET call == [e |-> "send_request", d |-> h, cmd |-> cmd, running |-> running[h]]
           route == Route(h, cmd, running[h])
       IN /\ mtrace' =
               CASE route = "drop" -> <<call>>
                 [] route = "reject" ->
                      <<call, [e |-> "receivedResult",
                               r |-> RequestResult(h, RequestId(cmd), NoneValue, TRUE, "TASK")]>>
                 [] route = "forward" -> <<call, [e |-> "requestWorker", cmd |-> cmd]>>
          /\ inbox' = IF route = "forward"
                      THEN [inbox EXCEPT ![h] = Append(@, [cmd EXCEPT !.ticket = sends + 1])]
                      ELSE inbox
    /\ UNCHANGED <<workers, sideVars, running, workerVars, mainQ, main_wait, coordVars, ticks, executed>>

\* resultReady -> WorkerHandler.handle_result, in the main thread
HandleResult ==
    /\ Alive /\ main_wait = "none"
    /\ mainQ # <<>> /\ Head(mainQ).k = "result"
    /\ mainQ' = Tail(mainQ)
    /\ main_wait' = IF StartsWithQuit(Head(mainQ).r.request_id) /\ running[Head(mainQ).d]
                    THEN Head(mainQ).d
                    ELSE "none"
    /\ UNCHANGED <<workers, sideVars, inbox, running, workerVars, mtrace, coordVars, sends, ticks, executed>>

\* ------------------------------------------------------------------ LabSync
\* LabSync._on_worker_finish(device_id): the pending set it leaves
OnWorkerFinish(pending, d) == pending \ {d}

\* QThread.finished -> _on_thread_finished -> handlerFinished -> _on_worker_finish
OnThreadFinished ==
    /\ Alive /\ main_wait = "none"
    /\ mainQ # <<>> /\ Head(mainQ).k = "finished"
    /\ mainQ' = Tail(mainQ)
    /\ LET d == Head(mainQ).d
           left == OnWorkerFinish(pending_workers, d)
       IN /\ handler_finished' = [handler_finished EXCEPT ![d] = @ + 1]
          /\ fin_after' = [fin_after EXCEPT ![d] = IF shutdown_at[d] = "no" THEN @ ELSE @ + 1]
          /\ pending_workers' = left
          /\ shutdown_finished' = IF left = {} THEN shutdown_finished + 1 ELSE shutdown_finished
    /\ UNCHANGED <<workers, sideVars, inbox, running, workerVars, main_wait, mtrace, close_requested,
                   shutdown_at, shutdown_reqs, sends, ticks, executed>>

\* faulty variant: QUIT is emitted before STOP_POLL
ShutdownRequestsReversed(d) ==
    <<DeviceRequest(d, "QUIT", NoParam, NoneValue),
      DeviceRequest(d, "STOP_POLL", NoParam, NoneValue)>>

\* start_shutdown: the requests it emits on requestWorker, in order
ShutdownRequests(d) ==
    <<DeviceRequest(d, "STOP_POLL", NoParam, NoneValue),
      DeviceRequest(d, "QUIT", NoParam, NoneValue)>>

\* requestClose -> LabSync._cleanup_backend, which calls start_shutdown on every
\* handler; a handler whose thread is not running emits handlerFinished at once
CleanupBackend ==
    /\ Alive /\ main_wait = "none" /\ ~close_requested
    /\ close_requested' = TRUE
    /\ LET stopped == {d \in workers : ~running[d]}
       IN /\ pending_workers' = workers \ stopped
          /\ shutdown_finished' = IF stopped = workers THEN shutdown_finished + 1
                                  ELSE shutdown_finished
          /\ handler_finished' = [d \in Devices |->
                                    IF d \in stopped THEN handler_finished[d] + 1
                                    ELSE handler_finished[d]]
          /\ fin_after' = [d \in Devices |-> IF d \in stopped THEN 1 ELSE 0]
          /\ shutdown_at' = [d \in Devices |->
                               IF d \notin workers THEN "no"
                               ELSE IF d \in stopped THEN "stopped" ELSE "running"]
          /\ shutdown_reqs' = [d \in Devices |->
                                 IF d \in workers \ stopped
                                 THEN [i \in 1..Len(ShutdownRequests(d)) |->
                                          ShutdownRequests(d)[i].cmd_type]
                                 ELSE <<>>]
          /\ inbox' = [d \in Devices |->
                         IF d \in workers \ stopped
                         THEN inbox[d] \o ShutdownRequests(d)
                         ELSE inbox[d]]
    /\ UNCHANGED <<workers, sideVars, running, workerVars, mainQ, main_wait, mtrace, sends, ticks, executed>>

Next ==
    \/ \E h \in Devices : \E cmd \in Alphabet(h) : SendRequest(h, cmd)
    \/ \E d \in Devices : WorkerTake(d)
    \/ \E d \in Devices : TimerTick(d)
    \/ \E d \in Devices : PollNext(d)
    \/ \E d \in Devices : DriverReturn(d)
    \/ \E d \in Devices : ThreadFinish(d)
    \/ HandleResult
    \/ OnThreadFinished
    \/ CleanupBackend

Spec == Init /\ [][Next]_vars

\* Both event loops deliver what is queued, and a driver call that was started ends.
FairSpec ==
    /\ Spec
    /\ \A d \in Devices : WF_vars(WorkerTake(d))
    /\ \A d \in Devices : WF_vars(PollNext(d))
    /\ \A d \in Devices : WF_vars(DriverReturn(d))
    /\ \A d \in Devices : WF_vars(ThreadFinish(d))
    /\ WF_vars(HandleResult)
    /\ WF_vars(OnThreadFinished)

\* ------------------------------------------------------------------ InstrumentCache
\* Floats are counted in units of 1e-5, so that 1.0 is 100000 and 1.00001 is 100001.
Float(u) == [k |-> "float", v |-> u, ch |-> 0]
IntValue(n) == [k |-> "int", v |-> n, ch |-> 0]
FloatUnit == 100000
AbsTol == 10
RelTolInverse == 1000000000

Abs(x) == IF x < 0 THEN 0 - x ELSE x
Max(a, b) == IF a < b THEN b ELSE a

\* faulty variant: no two floats are ever close
iscloseNever(a, b) == FALSE

\* math.isclose(a, b, abs_tol=1e-4) on finite floats, with the default rel_tol of 1e-9
isclose(a, b) ==
    \/ a = b
    \/ Abs(a - b) <= Max(Max(Abs(a), Abs(b)) \div RelTolInverse, AbsTol)

\* Python's != : numbers of different types compare by value
NotEqual(value_1, value_2) ==
    IF value_1.k \in {"float", "int"} /\ value_2.k \in {"float", "int"}
    THEN (IF value_1.k = "int" THEN value_1.v * FloatUnit ELSE value_1.v)
         # (IF value_2.k = "int" THEN value_2.v * FloatUnit ELSE value_2.v)
    ELSE value_1 # value_2

check_valuesExact(value_1, value_2) ==
    IF value_1.k = "none" THEN TRUE ELSE NotEqual(value_1, value_2)

check_values(value_1, value_2) ==
    IF value_1.k = "none" THEN TRUE
    ELSE IF value_2.k = "float" /\ value_1.k = "float" THEN ~isclose(value_1.v, value_2.v)
    ELSE NotEqual(value_1, value_2)

\* the values handed to set_value
CacheValues ==
    {NoneValue, IntValue(1), Float(0), Float(10), Float(100000), Float(100001), Float(100002),
     Float(110000)}

\* set_value on one key: what is stored afterwards and whether subscribers are notified
set_value(stored, value) ==
    IF stored = Absent \/ check_values(stored, value)
    THEN [stored |-> value, notified |-> TRUE]
    ELSE [stored |-> stored, notified |-> FALSE]

SetValue(value) ==
    /\ Len(cache_calls) < MaxCalls
    /\ cache' = set_value(cache, value).stored
    /\ cache_calls' = Append(cache_calls, [stored |-> cache, value |-> value,
                                           notified |-> set_value(cache, value).notified])
    /\ UNCHANGED <<mainVars, driverVars, tgaVars, ecoVars, presetVars>>

CacheInit == MainInit /\ workers = {"EcoVario"} /\ SideIdle

CacheNext == \E value \in CacheValues : SetValue(value)

CacheSpec == CacheInit /\ [][CacheNext]_vars

\* ------------------------------------------------------------------ FrequencyGenerator
Channels == {1, 2, 3}

\* the setters that write one parameter command, and the command each writes
Setters == {"set_waveform", "set_amplitude"}
What(setter) == IF setter = "set_waveform" THEN "WAVE" ELSE "AMPL"

EvSelect(channel) == [e |-> "SETUPCH", channel |-> channel, what |-> "", applied |-> channel]
EvParam(channel, what, applied) ==
    [e |-> "param", channel |-> channel, what |-> what, applied |-> applied]

\* _write on a connected driver: the raw writes it makes, given the generator's own selection
_write(channel, what, current, selected) ==
    IF channel # current
    THEN <<EvSelect(channel), EvParam(channel, what, channel)>>
    ELSE <<EvParam(channel, what, selected)>>

SetterCalls == Cardinality({i \in 1..Len(tga_written) : tga_written[i].e = "param"})

\* one setter call on the driver as open_port has left it; _write assigns no field
Setter(setter, channel) ==
    /\ SetterCalls < MaxSetterCalls
    /\ tga_written' = tga_written \o _write(channel, What(setter), current_channel, tga_channel)
    /\ tga_channel' = IF channel # current_channel THEN channel ELSE tga_channel
    /\ UNCHANGED <<current_channel, mainVars, driverVars, cacheVars, ecoVars, presetVars>>

TgaInit == MainInit /\ workers = {"TGA1244"} /\ SideIdle

TgaNext == \E setter \in Setters, channel \in Channels : Setter(setter, channel)

TgaSpec == TgaInit /\ [][TgaNext]_vars

\* ------------------------------------------------------------------ EcoConnect helpers
RECURSIVE sum(_)
sum(seq) == IF seq = <<>> THEN 0 ELSE seq[1] + sum(Tail(seq))

\* Python's ~x and x & 0xFF on unbounded integers
Invert(x) == 0 - x - 1
And0xFF(x) == x % 256

_calculate_checksumOnesComplement(msg) == And0xFF(Invert(And0xFF(sum(msg))))

_calculate_checksum(msg) == And0xFF(Invert(And0xFF(sum(msg))) + 1)

\* byte values a frame is built from, beyond the single bytes 0..255
ByteSamples == {0, 1, 16, 127, 128, 255}

RECURSIVE SeqsOf(_, _)
SeqsOf(S, n) ==
    IF n = 0 THEN {<<>>}
    ELSE SeqsOf(S, n - 1) \cup {Append(q, x) : q \in {r \in SeqsOf(S, n - 1) : Len(r) = n - 1}, x \in S}

Frames == SeqsOf(ByteSamples, MaxFrameLen) \cup {<<b>> : b \in 0..255}

CalculateChecksum ==
    /\ checksum = -1
    /\ checksum' = _calculate_checksum(message)
    /\ UNCHANGED <<message, hex_string, hex_result, hex_count, mainVars, driverVars, cacheVars, tgaVars,
                   presetVars>>

ChecksumInit ==
    /\ MainInit /\ workers = {"EcoVario"}
    /\ CacheIdle /\ TgaIdle /\ HexIdle /\ PresetIdle /\ DriverIdle
    /\ message \in Frames /\ checksum = -1

ChecksumNext == CalculateChecksum

ChecksumSpec == ChecksumInit /\ [][ChecksumNext]_vars

\* the digits a hex string is built from
HexDigits == {"0", "a", "f"}

RECURSIVE Pairs(_)
\* [hex_string[i:i + 2] for i in range(0, len(hex_string), 2)]
Pairs(str) ==
    IF Len(str) <= 2 THEN (IF str = <<>> THEN <<>> ELSE <<str>>)
    ELSE <<SubSeq(str, 1, 2)>> \o Pairs(SubSeq(str, 3, Len(str)))

RECURSIVE Reversed(_)
Reversed(seq) == IF seq = <<>> THEN <<>> ELSE Append(Reversed(Tail(seq)), Head(seq))

RECURSIVE Join(_)
Join(seq) == IF seq = <<>> THEN <<>> ELSE Head(seq) \o Join(Tail(seq))

_invert_hexDigits(str) == Reversed(str)

_invert_hex(str) == Join(Reversed(Pairs(str)))

InvertHex ==
    /\ hex_count < 2
    /\ hex_result' = _invert_hex(IF hex_count = 0 THEN hex_string ELSE hex_result)
    /\ hex_count' = hex_count + 1
    /\ UNCHANGED <<hex_string, message, checksum, mainVars, driverVars, cacheVars, tgaVars, presetVars>>

HexInit ==
    /\ MainInit /\ workers = {"EcoVario"}
    /\ CacheIdle /\ TgaIdle /\ ChecksumIdle /\ PresetIdle /\ DriverIdle
    /\ hex_string \in SeqsOf(HexDigits, MaxHexLen) /\ hex_result = <<>> /\ hex_count = 0

HexNext == InvertHex

HexSpec == HexInit /\ [][HexNext]_vars

\* ------------------------------------------------------------------ LabFileParser
StrValue(s) == [k |-> "str", v |-> 0, ch |-> 0, s |-> s]
\* a per-channel map: channel index -> scalar
DictValue(m) == [k |-> "dict", v |-> 0, ch |-> 0, map |-> m]

\* the (device, parameter) keys of the cache, in the order they were inserted
PresetKeys == <<<<"TGA1244", "amplitude">>, <<"TGA1244", "waveform">>, <<"EcoVario", "target_pos">>>>
KeySet == {PresetKeys[i] : i \in 1..Len(PresetKeys)}

PresetScalars == {NoneValue, Float(500000), StrValue("sine")}
PresetValues ==
    PresetScalars
       \cup {DictValue(EmptyMap), DictValue(1 :> Float(500000)),
             DictValue((1 :> Float(500000)) @@ (2 :> NoneValue))}

\* the cache maps handed to save
PresetMaps == UNION {[K -> PresetValues] : K \in SUBSET KeySet}

\* lines of the .lab file; index -1 is a line without [index]
LineComment == [t |-> "comment", name |-> "", index |-> -1, text |-> NoneValue]
LineSection(device) == [t |-> "section", name |-> device, index |-> -1, text |-> NoneValue]
LineParam(param, index, value) == [t |-> "param", name |-> param, index |-> index, text |-> value]

\* the indices of a per-channel map in ascending order
RECURSIVE sorted(_)
sorted(S) ==
    IF S = {} THEN <<>>
    ELSE LET least == CHOOSE x \in S : \A y \in S : x <= y
         IN <<least>> \o sorted(S \ {least})

RECURSIVE IndexLines(_, _, _)
IndexLines(param, value, idxs) ==
    IF idxs = <<>> THEN <<>>
    ELSE <<LineParam(param, Head(idxs), value.map[Head(idxs)])>>
            \o IndexLines(param, value, Tail(idxs))

\* the lines save writes for one parameter of a device
ParamLines(param, value) ==
    IF value.k = "dict" THEN IndexLines(param, value, sorted(DOMAIN value.map))
    ELSE <<LineParam(param, -1, value)>>

RECURSIVE DeviceLines(_, _, _)
DeviceLines(data, device, keys) ==
    IF keys = <<>> THEN <<>>
    ELSE (IF Head(keys) \in DOMAIN data /\ Head(keys)[1] = device
          THEN ParamLines(Head(keys)[2], data[Head(keys)])
          ELSE <<>>) \o DeviceLines(data, device, Tail(keys))

\* the devices of the map in the order of their first key
RECURSIVE organized(_, _, _)
organized(data, keys, seen) ==
    IF keys = <<>> THEN <<>>
    ELSE IF Head(keys) \in DOMAIN data /\ Head(keys)[1] \notin seen
         THEN <<Head(keys)[1]>> \o organized(data, Tail(keys), seen \cup {Head(keys)[1]})
         ELSE organized(data, Tail(keys), seen)

RECURSIVE SectionLines(_, _)
SectionLines(data, devices) ==
    IF devices = <<>> THEN <<>>
    ELSE <<LineSection(Head(devices))>> \o DeviceLines(data, Head(devices), PresetKeys)
            \o SectionLines(data, Tail(devices))

\* LabFileParser.save: the lines written for a cache map
save(data) == <<LineComment, LineComment>> \o SectionLines(data, organized(data, PresetKeys, {}))

\* str(value) written by save and read back: None comes back as the string "None"
parse_value_string(value) == IF value = NoneValue THEN StrValue("None") ELSE value

RECURSIVE load(_, _, _)
\* LabFileParser.load: the map parsed from the lines, line by line
load(lines, current_device, data) ==
    IF lines = <<>> THEN data
    ELSE LET line == Head(lines)
             key == <<current_device, line.name>>
             value == parse_value_string(line.text)
         IN IF line.t = "comment" THEN load(Tail(lines), current_device, data)
            ELSE IF line.t = "section" THEN load(Tail(lines), line.name, data)
            ELSE IF line.index # -1
                 THEN LET old == IF key \in DOMAIN data /\ data[key].k = "dict"
                                 THEN data[key].map ELSE EmptyMap
                      IN load(Tail(lines), current_device,
                              (key :> DictValue((line.index :> value) @@ old)) @@ data)
                 ELSE load(Tail(lines), current_device, (key :> value) @@ data)

Save ==
    /\ preset_stage = "cached"
    /\ preset_file' = save(preset_data)
    /\ preset_stage' = "saved"
    /\ UNCHANGED <<preset_data, preset_loaded, mainVars, driverVars, cacheVars, tgaVars, ecoVars>>

Load ==
    /\ preset_stage = "saved"
    /\ preset_loaded' = load(preset_file, "Global", EmptyMap)
    /\ preset_stage' = "loaded"
    /\ UNCHANGED <<preset_data, preset_file, mainVars, driverVars, cacheVars, tgaVars, ecoVars>>

PresetInit ==
    /\ MainInit /\ workers = {"EcoVario", "Laser1"}
    /\ CacheIdle /\ TgaIdle /\ ChecksumIdle /\ HexIdle /\ DriverIdle
    /\ preset_data \in PresetMaps /\ preset_file = <<>>
    /\ preset_loaded = EmptyMap /\ preset_stage = "cached"

PresetNext == Save \/ Load

PresetSpec == PresetInit /\ [][PresetNext]_vars

\* ------------------------------------------------------------------ polling
\* The callers of one device that start and stop polls at several intervals.
PollRequests(d) ==
    {DeviceRequest(d, "START_POLL", FirstPoll(d), v) : v \in {Num(2000), Num(1000), NoneValue}}
    \cup {DeviceRequest(d, "START_POLL", SecondPoll(d), Num(1000)),
          DeviceRequest(d, "STOP_POLL", FirstPoll(d), NoneValue),
          DeviceRequest(d, "STOP_POLL", NoParam, NoneValue),
          DeviceRequest(d, "CONNECT", NoParam, PortValue)}

PollingInit == MainInit /\ workers = {"EcoVario"} /\ SideIdle

PollingNext ==
    \/ \E h \in Devices : \E cmd \in PollRequests(h) : SendRequest(h, cmd)
    \/ \E d \in Devices : WorkerTake(d)
    \/ \E d \in Devices : TimerTick(d)
    \/ \E d \in Devices : PollNext(d)
    \/ \E d \in Devices : DriverReturn(d)
    \/ HandleResult

PollingSpec == PollingInit /\ [][PollingNext]_vars

\* ------------------------------------------------------------------ EcoConnect SDO frames
CmdWrite == 34
CmdRead == 64

\* value.to_bytes(4, byteorder="little"); a negative value raises OverflowError
to_bytes(value) ==
    <<value % 256, (value \div 256) % 256, (value \div 65536) % 256, (value \div 16777216) % 256>>

WithChecksum(msg) == Append(msg, _calculate_checksum(msg))

\* the frame _write_sdo writes, <<>> when to_bytes raises before anything is written
_write_sdo(id, object, value) ==
    IF value < 0 THEN <<>>
    ELSE WithChecksum(<<id, CmdWrite, object % 256, object \div 256>> \o to_bytes(value))

\* the frame _read_sdo writes
_read_sdo(id, object) ==
    WithChecksum(<<id, CmdRead, object % 256, object \div 256, 0, 0, 0, 0, 0>>)

\* node ids, objects (0x6040, 0x6063, 0x607A) and values of the calls
SdoIds == {1, 2}
SdoObjects == {24640, 24675, 24698}
SdoValues == {-1, 0, 1, 15, 55, 63, 255, 256, 431, 65536, 2530000}

SdoCalls ==
    {[kind |-> "write", id |-> i, object |-> o, value |-> v] :
        i \in SdoIds, o \in SdoObjects, v \in SdoValues}
    \cup {[kind |-> "read", id |-> i, object |-> o, value |-> 0] : i \in SdoIds, o \in SdoObjects}

SendSdo ==
    /\ sdo_frame = <<>>
    /\ sdo_frame' = IF sdo_call.kind = "write"
                    THEN _write_sdo(sdo_call.id, sdo_call.object, sdo_call.value)
                    ELSE _read_sdo(sdo_call.id, sdo_call.object)
    /\ sdo_frame' # <<>>
    /\ UNCHANGED <<sdo_call, mainVars, cacheVars, tgaVars, ecoVars, presetVars, resetVars,
                   laserVars, stageVars>>

SdoInit ==
    /\ MainInit /\ workers = {"EcoVario"}
    /\ CacheIdle /\ TgaIdle /\ ChecksumIdle /\ HexIdle /\ PresetIdle
    /\ ResetIdle /\ LaserIdle /\ StageIdle
    /\ sdo_call \in SdoCalls /\ sdo_frame = <<>>

SdoNext == SendSdo

SdoSpec == SdoInit /\ [][SdoNext]_vars

\* ------------------------------------------------ OmicronLaser.reset_controller
\* A line read from the laser is a sequence of pieces; " " stands for any
\* run of white space.  ResetLines are the lines the transport can deliver.
MaxResetReads == 3

ResetLines == {<<"!RsC>">>, <<" ", "!RsC>", " ">>, <<"!RsC">>, <<"$RsC>">>, <<>>}

RECURSIVE lstrip(_)
lstrip(line) ==
    IF line # <<>> /\ Head(line) = " " THEN lstrip(Tail(line)) ELSE line

RECURSIVE rstrip(_)
rstrip(line) ==
    IF line # <<>> /\ line[Len(line)] = " "
    THEN rstrip(SubSeq(line, 1, Len(line) - 1)) ELSE line

strip(line) == rstrip(lstrip(line))

ResetAnswered(line) == strip(line) = <<"!RsC>">>

\* timeout = time.time() + 10; self.Laser.write("?RsC")
ResetWrite ==
    /\ reset_state = "idle"
    /\ reset_written' = Append(reset_written, "?RsC")
    /\ reset_state' = "waiting"
    /\ UNCHANGED <<reset_replies, mainVars, cacheVars, tgaVars, ecoVars, presetVars,
                   sdoVars, laserVars, stageVars>>

\* One pass of the loop body while time.time() < timeout: a line is read;
\* the expected answer breaks the loop, anything else sleeps and loops.
ResetRead ==
    /\ reset_state = "waiting"
    /\ Len(reset_replies) < MaxResetReads
    /\ \E line \in ResetLines :
         /\ reset_replies' = Append(reset_replies, line)
         /\ reset_state' = IF ResetAnswered(line) THEN "returned" ELSE "waiting"
    /\ UNCHANGED <<reset_written, mainVars, cacheVars, tgaVars, ecoVars, presetVars,
                   sdoVars, laserVars, stageVars>>

\* self.Laser.read() finds no line within the transport's own read timeout
\* and raises VisaIOError, which reset_controller does not catch.
ResetReadRaises ==
    /\ reset_state = "waiting"
    /\ Len(reset_replies) < MaxResetReads
    /\ reset_state' = "VisaIOError"
    /\ UNCHANGED <<reset_written, reset_replies, mainVars, cacheVars, tgaVars, ecoVars,
                   presetVars, sdoVars, laserVars, stageVars>>

\* The loop condition time.time() < timeout is false: the loop ends and the
\* method falls off its end.
ResetDeadline ==
    /\ reset_state = "waiting"
    /\ reset_state' = "returned"
    /\ UNCHANGED <<reset_written, reset_replies, mainVars, cacheVars, tgaVars, ecoVars,
                   presetVars, sdoVars, laserVars, stageVars>>

ResetInit ==
    /\ MainInit /\ workers = {"Laser1"}
    /\ CacheIdle /\ TgaIdle /\ ChecksumIdle /\ HexIdle /\ PresetIdle
    /\ SdoIdle /\ ResetIdle /\ LaserIdle /\ StageIdle

ResetNext == ResetWrite \/ ResetRead \/ ResetReadRaises \/ ResetDeadline

ResetSpec == ResetInit /\ [][ResetNext]_vars

\* ------------------------------------------------------ OmicronLaser commands
\* laser_sent is the log of one driver on real hardware (simulate = False):
\* "open_port" marks a call of open_port, "return" / "raise" how it ended,
\* every other entry is a string handed to self.Laser.query.
MaxLaserSent == 6

AskFirmware == "?GFw|"
AskMaxPower == "?GMP"
SetStandby == "?SOM8000"

\* _ask(command) / _set(what, value): query "?" + command [+ value]
LaserCommands ==
    {"?SLP50.0", "?GLP", "?TPP50.0", "?TTP", "?ROM0", "?ROM", "?LOn", "?LOf"}

OpenPortOutcomes == {"ok", "open_resource", "firmware", "max_power", "max_power_reply"}

\* What open_port appends to the log for each way it can end.
OpenPortLog(outcome) ==
    CASE outcome = "ok" -> <<"open_port", AskFirmware, AskMaxPower, "return">>
      [] outcome = "open_resource" -> <<"open_port", "raise">>
      [] outcome = "firmware" -> <<"open_port", AskFirmware, "raise">>
      [] OTHER -> <<"open_port", AskFirmware, AskMaxPower, "raise">>

\* status is CONNECTED once the handle is configured; the except clause for
\* VisaIOError / SerialException puts it back, a reply that float() rejects
\* raises ValueError past it.
OpenPortStatus(outcome) ==
    IF outcome \in {"ok", "max_power_reply"} THEN "CONNECTED" ELSE "DISCONNECTED"

LaserOpenPort ==
    /\ \E outcome \in OpenPortOutcomes :
         /\ Len(laser_sent) + Len(OpenPortLog(outcome)) <= MaxLaserSent
         /\ laser_sent' = laser_sent \o OpenPortLog(outcome)
         /\ laser_status' = OpenPortStatus(outcome)
    /\ UNCHANGED <<mainVars, cacheVars, tgaVars, ecoVars, presetVars,
                   sdoVars, resetVars, stageVars>>

\* set_power, get_power, set_temp_power, get_temp_power, set_op_mode,
\* get_op_mode, set_emission: _ask / _set query only when CONNECTED.
LaserCommand ==
    /\ laser_status = "CONNECTED"
    /\ Len(laser_sent) < MaxLaserSent
    /\ \E command \in LaserCommands : laser_sent' = Append(laser_sent, command)
    /\ UNCHANGED <<laser_status, mainVars, cacheVars, tgaVars, ecoVars, presetVars,
                   sdoVars, resetVars, stageVars>>

LaserInit ==
    /\ MainInit /\ workers = {"Laser1"}
    /\ CacheIdle /\ TgaIdle /\ ChecksumIdle /\ HexIdle /\ PresetIdle
    /\ SdoIdle /\ ResetIdle /\ LaserIdle /\ StageIdle

LaserNext == LaserOpenPort \/ LaserCommand

LaserSpec == LaserInit /\ [][LaserNext]_vars

\* -------------------------------------------------------- EcoConnect commands
\* The stage driver on real hardware (simulate = False).  Lengths are whole
\* micrometres and the encoder steps are in units of 1e-9 mm, so that a
\* length divided by a step is length * StepScale / step.
PositionStep == 1253258
SpeedStep == 19585
AccelerationStep == 20059880
StepScale == 1000000

\* round(a / b) for a >= 0; a negative length keeps its sign.
RoundDiv(a, b) ==
    IF a >= 0 THEN (a + b \div 2) \div b ELSE 0 - (((0 - a) + b \div 2) \div b)

Encoder(length, step) == RoundDiv(length * StepScale, step)

StageCall(name, value) == [method |-> name, value |-> value]

\* The methods that test self.status before they touch the transport.
GuardedCalls ==
    {StageCall(m, 0) : m \in {"start", "stop", "reset_current_error",
                              "get_current_position", "get_current_error",
                              "get_status_word"}}
    \cup {StageCall("set_position", v) : v \in {-1000, 0, 500, 1000, 2000}}
    \cup {StageCall("set_speed", v) : v \in {100, 500, 1000}}
    \cup {StageCall("set_acceleration", v) : v \in {1000, 2000}}
    \cup {StageCall("set_deacceleration", v) : v \in {1000, 2000}}
    \cup {StageCall("set_control_word", v) : v \in {6, 7, 15, 31}}

HomeCall == StageCall("home_stage", 0)

\* The SDO calls each method makes, in order: <<"w", object, value>> is
\* _write_sdo(0x01, object, value), <<"r", object>> is _read_sdo(0x01, object).
SdoCallsOf(call) ==
    CASE call.method = "start" -> << <<"w", 24640, 63>> >>
      [] call.method = "stop" -> << <<"w", 24640, 55>> >>
      [] call.method = "reset_current_error" -> << <<"w", 24640, 431>> >>
      [] call.method = "set_control_word" -> << <<"w", 24640, call.value>> >>
      [] call.method = "set_position" ->
            << <<"w", 24698, Encoder(call.value, PositionStep)>> >>
      [] call.method = "set_speed" ->
            << <<"w", 24705, Encoder(call.value, SpeedStep)>> >>
      [] call.method = "set_acceleration" ->
            << <<"w", 24707, Encoder(call.value, AccelerationStep)>> >>
      [] call.method = "set_deacceleration" ->
            << <<"w", 24708, Encoder(call.value, AccelerationStep)>> >>
      [] call.method = "get_current_position" -> << <<"r", 24675>> >>
      [] call.method = "get_current_error" -> << <<"r", 24639>> >>
      [] call.method = "get_status_word" -> << <<"r", 24641>> >>
      [] call.method = "home_stage" ->
            << <<"w", 24640, 15>>, <<"w", 24728, 17>>, <<"w", 24672, 6>>,
               <<"w", 24640, 31>> >>

SdoFrame(c) == IF c[1] = "w" THEN _write_sdo(1, c[2], c[3]) ELSE _read_sdo(1, c[2])

\* The frames written until the first call that raises (to_bytes on a
\* negative value writes nothing), and whether one did.
RECURSIVE FramesOf(_)
FramesOf(calls) ==
    IF calls = <<>> \/ SdoFrame(Head(calls)) = <<>> THEN <<>>
    ELSE <<SdoFrame(Head(calls))>> \o FramesOf(Tail(calls))

Overflows(calls) == \E i \in 1..Len(calls) : SdoFrame(calls[i]) = <<>>

\* The body of a method once it has decided to use the transport:
\* self.EcoVario is None before the first open_port, a closed session after
\* close_port.
UseTransport(call) ==
    CASE stage_handle = "None" ->
            /\ stage_written' = <<>> /\ stage_outcome' = "AttributeError"
      [] stage_handle = "closed" ->
            /\ stage_written' = <<>> /\ stage_outcome' = "InvalidSession"
      [] OTHER ->
            /\ stage_written' = FramesOf(SdoCallsOf(call))
            /\ stage_outcome' = IF Overflows(SdoCallsOf(call))
                                THEN "OverflowError" ELSE "returned"

\* open_port: open_resource succeeds and status becomes CONNECTED, or it
\* raises, self.EcoVario keeps what it held and status becomes DISCONNECTED.
StageOpenPort ==
    /\ \E ok \in BOOLEAN :
         /\ stage_call' = StageCall("open_port", IF ok THEN 1 ELSE 0)
         /\ stage_handle' = IF ok THEN "open" ELSE stage_handle
         /\ stage_status' = IF ok THEN "CONNECTED" ELSE "DISCONNECTED"
         /\ stage_outcome' = IF ok THEN "returned" ELSE "DeviceConnectionError"
    /\ stage_written' = <<>>
    /\ UNCHANGED <<mainVars, cacheVars, tgaVars, ecoVars, presetVars,
                   sdoVars, resetVars, laserVars>>

StageClosePort ==
    /\ stage_call' = StageCall("close_port", 0)
    /\ IF stage_status = "CONNECTED"
       THEN stage_handle' = "closed" /\ stage_status' = "DISCONNECTING"
       ELSE UNCHANGED <<stage_handle, stage_status>>
    /\ stage_written' = <<>> /\ stage_outcome' = "returned"
    /\ UNCHANGED <<mainVars, cacheVars, tgaVars, ecoVars, presetVars,
                   sdoVars, resetVars, laserVars>>

\* start .. get_status_word: if self.status == CONNECTED: ... return None
StageGuarded ==
    /\ \E call \in GuardedCalls :
         /\ stage_call' = call
         /\ IF stage_status = "CONNECTED"
            THEN UseTransport(call)
            ELSE stage_written' = <<>> /\ stage_outcome' = "returned"
    /\ UNCHANGED <<stage_status, stage_handle, mainVars, cacheVars, tgaVars, ecoVars,
                   presetVars, sdoVars, resetVars, laserVars>>

\* home_stage: if self.simulate: ... else: four _write_sdo calls
StageHome ==
    /\ stage_call' = HomeCall
    /\ UseTransport(HomeCall)
    /\ UNCHANGED <<stage_status, stage_handle, mainVars, cacheVars, tgaVars, ecoVars,
                   presetVars, sdoVars, resetVars, laserVars>>

StageInit ==
    /\ MainInit /\ workers = {"EcoVario"}
    /\ CacheIdle /\ TgaIdle /\ ChecksumIdle /\ HexIdle /\ PresetIdle
    /\ SdoIdle /\ ResetIdle /\ LaserIdle /\ StageIdle

StageNext == StageOpenPort \/ StageClosePort \/ StageGuarded \/ StageHome

StageSpec == StageInit /\ [][StageNext]_vars

\* ------------------------------------------------------------------ properties
IsEmit(ev) == ev.e = "resultReady"

\* the results execute_request has emitted for the request in cur[d]
EmitsOf(d) == SelectSeq(wtrace[d], IsEmit)

\* an exception has left execute_request while it executed cur[d]
Escaped(d) == \E i \in 1..Len(wtrace[d]) : wtrace[d][i].e = "escaped"

\* the driver call made for cur[d] has raised
Raised(d) == \E i \in 1..Len(wtrace[d]) : wtrace[d][i].e = "return" /\ wtrace[d][i].m # "ok"

\* execute_request has run to its end for cur[d]
Done(d) == pc[d] = "idle" /\ cur[d] # NoRequest

Increasing(sq) == \A i, j \in 1..Len(sq) : i < j => sq[i] < sq[j]

WaitingTickets(d) ==
    LET Forwarded(c) == c.ticket > 0
        q == SelectSeq(inbox[d], Forwarded)
    IN [i \in 1..Len(q) |-> q[i].ticket]

\* C1: the requests forwarded to one device are executed in the order in which
\* send_request was called: what the worker has executed, followed by what still
\* waits in its queue, is in call order, and a request is started only when the
\* one before it has completed.  Nothing orders the requests of two devices.
C1_FifoPerDevice ==
    \A d \in Devices :
       /\ Increasing(executed[d] \o WaitingTickets(d))
       /\ (pc[d] = "call" /\ cur[d].ticket > 0
             => executed[d][Len(executed[d])] = cur[d].ticket)

\* One device has executed two requests, a QUIT after the request ahead of it,
\* while a request sent earlier to the other device still waits.
C1_Witness ==
    \E a, b \in workers :
       /\ a # b
       /\ Len(executed[a]) = 2 /\ Done(a) /\ cur[a].cmd_type = "QUIT"
       /\ inbox[b] # <<>>
       /\ Head(inbox[b]).ticket \in 1..(executed[a][1] - 1)

C3_FailuresBecomeResults ==
    \A d \in Devices :
       Done(d) /\ Raised(d) =>
          /\ ~Escaped(d)
          /\ LET last == wtrace[d][Len(wtrace[d])]
             IN /\ last.e = "resultReady"
                /\ last.r.error
                /\ (cur[d].cmd_type \in {"SET", "POLL"} => last.r.error_type = "TASK")

\* the last send_request call was handed a request of another device
MismatchSent == mtrace # <<>> /\ mtrace[1].cmd.device_id # mtrace[1].d

RejectedAsTask ==
    /\ Len(mtrace) = 2
    /\ mtrace[2].e = "receivedResult"
    /\ mtrace[2].r.error
    /\ mtrace[2].r.error_type = "TASK"
    /\ mtrace[2].r.request_id = RequestId(mtrace[1].cmd)

\* C4 as stated: a send_request with a request of another device has emitted
\* exactly one TASK-error result on receivedResult and nothing on requestWorker.
C4_MismatchRejected ==
    MismatchSent => RejectedAsTask

\* C4: while the handler's thread is running, a send_request with a request of
\* another device emits exactly one TASK-error result on receivedResult; when
\* the thread is not running it emits nothing at all.  In both cases nothing is
\* emitted on requestWorker and the call leaves the worker's queue, poll
\* contexts, timer and driver untouched.
C4_MismatchRejectedWhileRunning ==
    /\ [](MismatchSent => IF mtrace[1].running THEN RejectedAsTask ELSE Len(mtrace) = 1)
    /\ [][sends' # sends /\ MismatchSent' => UNCHANGED <<inbox, workerVars>>]_vars

\* A request of another device has been rejected by a handler whose worker has
\* poll contexts and a running timer.
C4_Witness ==
    /\ MismatchSent /\ mtrace[1].running /\ RejectedAsTask
    /\ timer_active[mtrace[1].d]
    /\ poll_contexts[mtrace[1].d] # <<>>

\* the driver method calls made so far for cur[d]
CallsOf(d) ==
    LET IsCall(ev) == ev.e = "call"
    IN SelectSeq(wtrace[d], IsCall)

\* cur[d] is a SET of a number on a parameter with numeric bounds
BoundedSet(d) ==
    /\ cur[d].cmd_type = "SET"
    /\ cur[d].parameter \in DOMAIN Profile(d)
    /\ cur[d].value.k = "num"
    /\ Profile(d)[cur[d].parameter].data_type \in {"int", "float"}
    /\ Profile(d)[cur[d].parameter].min_value.k = "num"
    /\ Profile(d)[cur[d].parameter].max_value.k = "num"

C6_TimerAtMinimum ==
    \A d \in Devices :
       timer_active[d] =>
          /\ poll_contexts[d] # <<>>
          /\ \A i \in 1..Len(poll_contexts[d]) : timer_interval[d] <= poll_contexts[d][i].interval
          /\ \E i \in 1..Len(poll_contexts[d]) : timer_interval[d] = poll_contexts[d][i].interval

\* After two START_POLLs (2000 ms, then the 500 ms default) a STOP_POLL of the
\* faster parameter has put the running timer back to 2000 ms.
C6_Witness ==
    \E d \in workers :
       /\ Len(executed[d]) = 3
       /\ cur[d].cmd_type = "STOP_POLL" /\ cur[d].parameter = SecondPoll(d)
       /\ timer_active[d] /\ timer_interval[d] = 2000
       /\ Len(poll_contexts[d]) = 1

\* the number of results at the head of wtrace[d]
LeadingEmits(d) ==
    Cardinality({i \in 1..Len(wtrace[d]) : \A j \in 1..i : wtrace[d][j].e = "resultReady"})

\* C7: a DISCONNECT or QUIT first emits one result with value None and no error
\* for every poll context, in order and with that context's id, only then stops
\* the timer and calls close_port, and emits nothing after that but its own
\* result; a completed QUIT leaves no poll context.
C7_SentinelsBeforeClose ==
    \A d \in Devices :
       cur[d].cmd_type \in {"DISCONNECT", "QUIT"} =>
          LET tr == wtrace[d]
              n == LeadingEmits(d)
              known == cur[d].cmd_type = "DISCONNECT" \/ pc[d] = "call"
          IN /\ \A i \in 1..n :
                   /\ tr[i].r.value = NoneValue
                   /\ ~tr[i].r.error
                   /\ tr[i].r.request_id[1] = "POLL"
             /\ known =>
                   /\ n = Len(poll_contexts[d])
                   /\ \A i \in 1..n :
                         tr[i].r.request_id = RequestId(PollRequest(d, poll_contexts[d][i].parameter))
             /\ \E i \in (n + 1)..Len(tr) : tr[i] = EvCall("close_port")
             /\ \A i \in (n + 1)..Len(tr) :
                   tr[i].e = "resultReady" =>
                      i = Len(tr) /\ tr[i].r.request_id = RequestId(cur[d])
             /\ (cur[d].cmd_type = "QUIT" /\ pc[d] = "idle" => poll_contexts[d] = <<>>)

\* A QUIT has completed that found two poll contexts and a running timer.
C7_Witness ==
    \E d \in workers :
       /\ Done(d) /\ cur[d].cmd_type = "QUIT"
       /\ LeadingEmits(d) = 2
       /\ wtrace[d][3] = EvTimerStop
       /\ wtrace[d][4] = EvCall("close_port")
       /\ poll_contexts[d] = <<>>

\* C8 as stated: once start_shutdown has been called on a handler, STOP_POLL and
\* then QUIT have been emitted to its worker and handlerFinished is emitted at
\* most once, whether or not the thread was running.
C8_ShutdownAlwaysQueued ==
    \A d \in Devices :
       shutdown_at[d] # "no" =>
          shutdown_reqs[d] = <<"STOP_POLL", "QUIT">> /\ fin_after[d] <= 1

\* C8: start_shutdown on a handler whose thread is running queues STOP_POLL(all)
\* and then QUIT behind the requests already waiting, and handlerFinished is then
\* emitted, eventually and exactly once; on a handler whose thread is not
\* running it sends nothing to the worker and emits handlerFinished itself.
C8_ShutdownCompletes ==
    /\ [](\A d \in Devices :
            /\ (shutdown_at[d] = "running" =>
                  shutdown_reqs[d] = <<"STOP_POLL", "QUIT">> /\ fin_after[d] <= 1)
            /\ (shutdown_at[d] = "stopped" =>
                  shutdown_reqs[d] = <<>> /\ fin_after[d] >= 1))
    /\ [][~close_requested /\ close_requested' =>
            \A d \in workers :
               inbox'[d] = IF running[d]
                           THEN inbox[d] \o <<DeviceRequest(d, "STOP_POLL", NoParam, NoneValue),
                                              DeviceRequest(d, "QUIT", NoParam, NoneValue)>>
                           ELSE inbox[d]]_vars
    /\ <>[](\A d \in Devices : shutdown_at[d] = "running" => fin_after[d] = 1)

\* A handler that had a request waiting when start_shutdown was called has
\* emitted handlerFinished after a QUIT whose close_port raised.
C8_Witness ==
    \E d \in workers :
       /\ shutdown_at[d] = "running" /\ fin_after[d] = 1
       /\ executed[d] # <<>>
       /\ cur[d].cmd_type = "QUIT" /\ cur[d].ticket = 0 /\ Raised(d)

\* C9: shutdownFinished is emitted only when every registered handler has
\* emitted handlerFinished and no worker thread is running.
C9_ShutdownOnlyWhenAllFinished ==
    shutdown_finished > 0 =>
       \A d \in workers : ~running[d] /\ handler_finished[d] > 0

C11_Differs(stored, value) ==
    IF stored = Absent THEN TRUE
    ELSE IF stored.k = "float" /\ value.k = "float" THEN ~(Abs(stored.v - value.v) < AbsTol)
    ELSE NotEqual(stored, value)

C12_Params == {i \in 1..Len(tga_written) : tga_written[i].e = "param"}

\* the channel of the setter call before the one that wrote position i, 1 after open_port
C12_Previous(i) ==
    LET before == {j \in C12_Params : j < i}
    IN IF before = {} THEN 1
       ELSE tga_written[CHOOSE j \in before : \A k \in before : k <= j].channel

\* C12: a SETUPCH is written before a parameter command exactly when the call's channel
\* differs from the channel of the previous call (1 right after open_port), and every
\* parameter command is applied to the channel named in the call.
C12_SelectorOnChannelChange ==
    \A i \in C12_Params :
       /\ (i > 1 /\ tga_written[i - 1].e = "SETUPCH")
             <=> (tga_written[i].channel # C12_Previous(i))
       /\ tga_written[i].applied = tga_written[i].channel

\* ------------------------------------------------------------------ C13
\* the step in which the open_port call of worker d ends by raising
C13_OpenPortFails(d) ==
    /\ pc[d] = "call" /\ method[d] = "open_port" /\ pc'[d] = "idle"
    /\ \E i \in (Len(wtrace[d]) + 1)..Len(wtrace'[d]) :
          wtrace'[d][i].e = "return" /\ wtrace'[d][i].m # "ok"

\* C13: a failing open_port raises the typed connection error and leaves the status as
\* it was before the call, so the status is never CONNECTED after a failed open_port
\* that started from a status other than CONNECTED.
C13_FailedOpenKeepsStatus ==
    [][\A d \in Devices :
          C13_OpenPortFails(d) =>
             /\ status'[d] = status[d]
             /\ OpenPortError(DriverClass(d)) = "DeviceConnectionError"
             /\ ~Escaped(d)']_vars

\* ------------------------------------------------------------------ C14
\* C14: when close_port returns on a CONNECTED driver the status is DISCONNECTED, and the
\* status changes in no step other than the end of an open_port or close_port call.
C14_CloseDisconnects ==
    [][\A d \in Devices :
          /\ (/\ pc[d] = "call" /\ method[d] = "close_port" /\ status[d] = "CONNECTED"
              /\ pc'[d] = "idle" /\ ~Raised(d)')
                => status'[d] = "DISCONNECTED"
          /\ status'[d] # status[d]
                => pc[d] = "call" /\ method[d] \in {"open_port", "close_port"}]_vars

\* ------------------------------------------------------------------ C15
\* C15: the checksum c of a frame is a byte and (sum(frame) + c) & 0xFF is 0.
C15_ChecksumCancelsSum ==
    checksum # -1 =>
       /\ checksum \in 0..255
       /\ (sum(message) + checksum) % 256 = 0

\* the checksum of a frame of four bytes whose sum is beyond one byte has been computed
C15_Witness ==
    /\ message = <<255, 128, 127, 16>>
    /\ checksum = 242

\* ------------------------------------------------------------------ C16
\* C16: on a hex string of even length, inverting twice gives the string back, and
\* inverting once gives its groups of two digits in reverse order.
C16_InvertIsInvolution ==
    Len(hex_string) % 2 = 0 =>
       /\ hex_count = 2 => hex_result = hex_string
       /\ hex_count = 1 =>
             /\ Len(hex_result) = Len(hex_string)
             /\ \A i \in 1..Len(hex_string) :
                   hex_result[i] = hex_string[Len(hex_string) - 2 * ((i + 1) \div 2) + 2 - (i % 2)]

\* a string of two different groups has been inverted twice
C16_Witness ==
    /\ hex_string = <<"0", "a", "f", "0">>
    /\ hex_count = 2
    /\ hex_result = hex_string

\* ------------------------------------------------------------------ C17
\* C17: the map loaded from a saved preset contains every key of the saved cache map,
\* and every channel index of each of its per-channel entries.
C17_RoundTripKeepsKeys ==
    preset_stage = "loaded" =>
       \A key \in DOMAIN preset_data :
          /\ key \in DOMAIN preset_loaded
          /\ preset_data[key].k = "dict" =>
                /\ preset_loaded[key].k = "dict"
                /\ DOMAIN preset_data[key].map \subseteq DOMAIN preset_loaded[key].map

\* ------------------------------------------------------------------ C18
\* C18: a SET or POLL of a parameter that is no key of the device's profile yields one
\* result with error set and error_type TASK, and no driver method is called.
C18_UnknownParameterIsTaskError ==
    \A d \in workers :
       (Done(d) /\ cur[d].cmd_type \in {"SET", "POLL"} /\ cur[d].parameter \notin DOMAIN Profile(d))
          => /\ EmitsOf(d) = <<EvEmit(RequestResult(d, RequestId(cur[d]), NoneValue, TRUE, "TASK"))>>
             /\ CallsOf(d) = <<>>

\* ------------------------------------------------------------------ C19
\* the step in which worker d executes a START_POLL
C19_StartPollStep(d) == cur'[d] # cur[d] /\ cur'[d].cmd_type = "START_POLL"

\* C19: a START_POLL for a parameter that has a poll context leaves the poll contexts,
\* parameters and intervals, as they are, and no parameter ever has two contexts.
C19_SecondStartPollIsNoOp ==
    /\ [](\A d \in Devices : \A i, j \in 1..Len(poll_contexts[d]) :
             poll_contexts[d][i].parameter = poll_contexts[d][j].parameter => i = j)
    /\ [][\A d \in Devices :
             (/\ C19_StartPollStep(d)
              /\ \E i \in 1..Len(poll_contexts[d]) :
                    poll_contexts[d][i].parameter = cur'[d].parameter)
                => poll_contexts'[d] = poll_contexts[d]]_vars

\* with two parameters polled, a START_POLL at the default interval for the first of
\* them, polled at 2000 ms, has been executed
C19_Witness ==
    \E d \in workers :
       /\ Done(d) /\ cur[d] = [DeviceRequest(d, "START_POLL", FirstPoll(d), NoneValue) EXCEPT !.ticket = 3]
       /\ poll_contexts[d] = <<[parameter |-> FirstPoll(d), interval |-> 2000],
                               [parameter |-> SecondPoll(d), interval |-> 1000]>>

\* ------------------------------------------------------------------ C20
\* the interval a START_POLL asks for
C20_Asked(cmd) == IF cmd.value = NoneValue THEN 500 ELSE cmd.value.v

\* C20 as stated: after a START_POLL(p, v) the context of p has interval v, 500 when v is
\* unset, and the timer runs at the smallest interval of all contexts.
C20_ContextHasRequestedInterval ==
    \A d \in workers :
       (Done(d) /\ cur[d].cmd_type = "START_POLL") =>
          /\ \E i \in 1..Len(poll_contexts[d]) :
                /\ poll_contexts[d][i].parameter = cur[d].parameter
                /\ poll_contexts[d][i].interval = C20_Asked(cur[d])
          /\ timer_active[d]
          /\ \A i \in 1..Len(poll_contexts[d]) : timer_interval[d] <= poll_contexts[d][i].interval

\* C20 amended: the START_POLL(p, v) gives p a context with interval v, 500 when v is
\* unset, only if p had none; a context p already has keeps its interval. In both cases
\* the timer is started at the smallest interval of all contexts.
C20_ContextKeepsFirstInterval ==
    [][\A d \in Devices :
          C19_StartPollStep(d) =>
             LET old == {i \in 1..Len(poll_contexts[d]) :
                            poll_contexts[d][i].parameter = cur'[d].parameter}
                 new == {i \in 1..Len(poll_contexts'[d]) :
                            poll_contexts'[d][i].parameter = cur'[d].parameter}
             IN /\ Cardinality(new) = 1
                /\ \A i \in new :
                      poll_contexts'[d][i].interval =
                         IF old = {} THEN C20_Asked(cur'[d])
                         ELSE poll_contexts[d][CHOOSE j \in old : TRUE].interval
                /\ timer_active'[d]
                /\ \A i \in 1..Len(poll_contexts'[d]) :
                      timer_interval'[d] <= poll_contexts'[d][i].interval
                /\ \E i \in 1..Len(poll_contexts'[d]) :
                      timer_interval'[d] = poll_contexts'[d][i].interval]_vars

\* a START_POLL at 1000 ms for the only polled parameter, polled at 2000 ms, has been
\* executed: the context and the timer are still at 2000 ms
C20_Witness ==
    \E d \in workers :
       /\ Done(d) /\ cur[d] = [DeviceRequest(d, "START_POLL", FirstPoll(d), Num(1000)) EXCEPT !.ticket = 2]
       /\ poll_contexts[d] = <<[parameter |-> FirstPoll(d), interval |-> 2000]>>
       /\ timer_active[d] /\ timer_interval[d] = 2000

C21_Polled(d) == {poll_contexts[d][i].parameter : i \in 1..Len(poll_contexts[d])}

\* the step in which worker d executes a STOP_POLL
C21_StopPollStep(d) == cur'[d] # cur[d] /\ cur'[d].cmd_type = "STOP_POLL"

\* a step of _handle_poll in worker d: the timer's tick or the loop's next poll
C21_TickStep(d) ==
    /\ ticks' # ticks \/ Len(poll_batch'[d]) < Len(poll_batch[d])
    /\ pc'[d] # pc[d] \/ wtrace'[d] # wtrace[d]

\* C21: a STOP_POLL(p) removes the context of p, a STOP_POLL without parameter removes
\* all contexts, only a START_POLL(p) gives p a context again, and a poll tick polls only
\* parameters that have a context; after a STOP_POLL the timer runs exactly when a
\* context remains.
C21_StoppedParameterNotPolled ==
    [][\A d \in Devices :
          /\ C21_StopPollStep(d) =>
                /\ cur'[d].parameter \notin C21_Polled(d)'
                /\ cur'[d].parameter = NoParam => poll_contexts'[d] = <<>>
                /\ C21_Polled(d)' = C21_Polled(d) \ {cur'[d].parameter}
                      \/ cur'[d].parameter = NoParam
                /\ timer_active'[d] <=> poll_contexts'[d] # <<>>
          /\ \A p \in C21_Polled(d)' \ C21_Polled(d) :
                cur'[d] # cur[d] /\ cur'[d].cmd_type = "START_POLL" /\ cur'[d].parameter = p
          /\ C21_TickStep(d) =>
                /\ cur'[d].cmd_type = "POLL"
                /\ cur'[d].parameter \in C21_Polled(d)
                /\ poll_contexts'[d] = poll_contexts[d]]_vars

\* two parameters were polled, the first was stopped, and the tick after it polls the
\* second one only
C21_Witness ==
    \E d \in workers :
       /\ Len(executed[d]) = 3
       /\ poll_contexts[d] = <<[parameter |-> SecondPoll(d), interval |-> 1000]>>
       /\ ticks = 1 /\ poll_batch[d] = <<>>
       /\ cur[d] = PollRequest(d, SecondPoll(d))
       /\ timer_active[d] /\ timer_interval[d] = 1000

\* ------------------------------------------------------------------ C22
\* the step in which the open_port call of worker d's CONNECT returns
C22_ConnectedStep(d) ==
    /\ pc[d] = "call" /\ method[d] = "open_port" /\ pc'[d] = "idle"
    /\ \E i \in (Len(wtrace[d]) + 1)..Len(wtrace'[d]) :
          wtrace'[d][i] = [e |-> "return", m |-> "ok"]

\* the tick of worker d's poll timer
C22_TimerTickStep(d) == ticks' # ticks /\ pc'[d] # pc[d]

\* C22: a DISCONNECT keeps the poll contexts; a CONNECT that succeeds emits a result with
\* value true, keeps the contexts and, when there are contexts, leaves the timer running
\* at their smallest interval; and a tick of the timer polls every parameter that has a
\* context.
C22_ContextsSurviveDisconnect ==
    [][\A d \in Devices :
          /\ cur'[d].cmd_type = "DISCONNECT" => poll_contexts'[d] = poll_contexts[d]
          /\ C22_ConnectedStep(d) =>
                /\ poll_contexts'[d] = poll_contexts[d]
                /\ \E i \in 1..Len(wtrace'[d]) :
                      wtrace'[d][i] =
                         EvEmit(RequestResult(d, RequestId(cur[d]), TrueValue, FALSE, "None"))
                /\ poll_contexts[d] # <<>> =>
                      /\ timer_active'[d]
                      /\ \A i \in 1..Len(poll_contexts[d]) :
                            timer_interval'[d] <= poll_contexts[d][i].interval
                      /\ \E i \in 1..Len(poll_contexts[d]) :
                            timer_interval'[d] = poll_contexts[d][i].interval
          /\ C22_TimerTickStep(d) =>
                {cur'[d].parameter} \cup {poll_batch'[d][i].parameter : i \in 1..Len(poll_batch'[d])}
                   = {poll_contexts[d][i].parameter : i \in 1..Len(poll_contexts[d])}]_vars

\* a polled parameter got its None on DISCONNECT, the CONNECT after it succeeded, and the
\* timer runs again at the interval of the context that was kept
C22_Witness ==
    \E d \in workers :
       /\ Len(mainQ) = 3
       /\ mainQ[1].r = RequestResult(d, RequestId(PollRequest(d, FirstPoll(d))), NoneValue, FALSE, "None")
       /\ mainQ[2].r.value = FalseValue /\ mainQ[2].r.request_id[1] = "DISCONNECT"
       /\ mainQ[3].r.value = TrueValue /\ mainQ[3].r.request_id[1] = "CONNECT"
       /\ Done(d) /\ cur[d].cmd_type = "CONNECT"
       /\ poll_contexts[d] = <<[parameter |-> FirstPoll(d), interval |-> 2000]>>
       /\ timer_active[d] /\ timer_interval[d] = 2000

\* ------------------------------------------------------------------ C23
\* the nine bytes of a frame as the claim lays them out
C23_Layout(cmd_byte, call) ==
    <<call.id, cmd_byte, call.object % 256, call.object \div 256, 0,
      call.value % 256, (call.value \div 256) % 256, (call.value \div 65536) % 256,
      (call.value \div 16777216) % 256>>

\* C23: every write frame is node id, 0x22, object low, object high, 0x00 and the four
\* little-endian bytes of the value, then the checksum of these nine bytes; every read
\* frame is laid out the same with 0x40 and a zero value.
C23_FrameLayout ==
    sdo_frame # <<>> =>
       LET body == C23_Layout(IF sdo_call.kind = "write" THEN CmdWrite ELSE CmdRead, sdo_call)
       IN /\ Len(sdo_frame) = 10
          /\ SubSeq(sdo_frame, 1, 9) = body
          /\ (sum(body) + sdo_frame[10]) % 256 = 0

\* C24: reset_controller writes "?RsC" and reads until "!RsC>" arrives; when
\* the deadline passes without that answer it ends by raising: it never
\* returns normally without having read "!RsC>".
C24_ReturnsOnlyAfterAnswer ==
    reset_state = "returned" =>
        /\ reset_written = <<"?RsC">>
        /\ reset_replies # <<>>
        /\ ResetAnswered(reset_replies[Len(reset_replies)])

\* C25: every open_port of the laser driver that returns normally has sent,
\* in this order, a firmware query, a spec query, a max-power query and the
\* switch to standby without Ad-Hoc ("SOM" "8000"), and nothing else, before
\* any other command reaches the laser.
C25_BringUpSequence ==
    \A i \in 1..Len(laser_sent) :
        laser_sent[i] = "return" =>
            /\ i >= 6
            /\ laser_sent[i - 5] = "open_port"
            /\ laser_sent[i - 4] = AskFirmware
            /\ laser_sent[i - 3] \notin {"open_port", "return", "raise", AskFirmware,
                                         AskMaxPower, SetStandby} \cup LaserCommands
            /\ laser_sent[i - 2] = AskMaxPower
            /\ laser_sent[i - 1] = SetStandby

\* C29: a command method of the stage driver that is called while status is
\* not CONNECTED writes nothing to the transport and returns without raising.
C29_StageCommands == GuardedCalls \cup {HomeCall}

C29_NotConnectedIsSilent ==
    (stage_call \in C29_StageCommands /\ stage_status # "CONNECTED") =>
        (stage_written = <<>> /\ stage_outcome = "returned")

\* ------------------------------------------------------------------ C26
\* cur[d] is a SET of a (value, channel) tuple whose value component lies
\* within the numeric bounds of its parameter
C26_TupleSetInBounds(d) ==
    /\ cur[d].cmd_type = "SET"
    /\ cur[d].value.k = "tuple"
    /\ cur[d].parameter \in DOMAIN Profile(d)
    /\ LET param == Profile(d)[cur[d].parameter]
       IN /\ param.method # "none"
          /\ param.min_value.k = "num" /\ param.max_value.k = "num"
          /\ cur[d].value.v >= param.min_value.v
          /\ cur[d].value.v <= param.max_value.v

\* C26: a SET of a (value, channel) tuple whose value component is inside the
\* parameter's bounds passes validation, calls the driver setter once and
\* yields one success result carrying the requested value.
C26_TupleSetSucceeds ==
    \A d \in workers :
       (Done(d) /\ C26_TupleSetInBounds(d)) =>
          /\ CallsOf(d) = <<EvCall(Profile(d)[cur[d].parameter].method)>>
          /\ EmitsOf(d) # <<>>
          /\ LET last == EmitsOf(d)[Len(EmitsOf(d))].r
             IN ~last.error /\ last.value = cur[d].value

\* ------------------------------------------------------------------ C27
\* worker d is inside a driver getter called by a poll tick
C27_PollTickInGetter(d) ==
    pc[d] = "call" /\ cur[d].cmd_type = "POLL" /\ cur[d].ticket = 0

\* C27: from the execution of a DISCONNECT, or of a CONNECT that failed, to
\* the next successful CONNECT the poll timer is not active and no poll tick
\* is inside a driver getter, whatever START_POLL and STOP_POLL requests are
\* executed meanwhile.
C27_NoPollingWhileDisconnected ==
    \A d \in workers :
       link[d] \in {"down", "failed"} =>
          ~timer_active[d] /\ ~C27_PollTickInGetter(d)

\* ------------------------------------------------------------------ C28
\* C28: once a worker has executed a QUIT no later request reaches its
\* driver: no driver method is entered and the driver's status stays what
\* the QUIT left, so the port is still closed when handlerFinished is
\* emitted.
C28_NothingAfterQuit ==
    [][\A d \in workers :
          link[d] = "quit" =>
             /\ pc'[d] = "idle"
             /\ status'[d] = status[d]
             /\ link'[d] = "quit"]_vars

====
